---- MODULE Spec2Model ----
(***************************************************************************)
(* quick-scaffold: the template catalog (get_templates), the project       *)
(* generator (create_project_structure and its five builders) and the CLI  *)
(* command (main) of src/src/cli.py, over a filesystem of directories and  *)
(* regular files below the working directory.                              *)
(*                                                                         *)
(* A path is the sequence of its components relative to the working        *)
(* directory (Path(...).parts); <<>> is the working directory itself.      *)
(* A file's content is a sequence of text chunks; the literal text of the  *)
(* templates between placeholders is abbreviated to its first words.       *)
(***************************************************************************)
EXTENDS Naturals, Sequences, FiniteSets

\* ------------------------------------------------------------------------
\* Bounds of the model
\* ------------------------------------------------------------------------

\* Generator calls (direct or through main) in one behaviour.
MaxCalls == 2

\* The project names passed to the generator: two siblings and a nested one.
ProjectNames == {<<"a">>, <<"b">>, <<"a", "b">>}

\* A template id that is not in the catalog.
UnknownTemplate == "svelte"

\* ------------------------------------------------------------------------
\* Template catalog
\* ------------------------------------------------------------------------

\* get_templates without its last entry.
get_templates_missing ==
    [id \in {"react", "python-cli", "fastapi", "nextjs"} |->
        CASE id = "react"      -> [name |-> "React App",  description |-> "React application with Vite"]
          [] id = "python-cli" -> [name |-> "Python CLI", description |-> "Python CLI tool with Click"]
          [] id = "fastapi"    -> [name |-> "FastAPI",    description |-> "FastAPI web application"]
          [] id = "nextjs"     -> [name |-> "Next.js",    description |-> "Next.js application"]]

get_templates ==
    [id \in {"react", "python-cli", "fastapi", "nextjs", "node-api"} |->
        CASE id = "react"      -> [name |-> "React App",   description |-> "React application with Vite"]
          [] id = "python-cli" -> [name |-> "Python CLI",  description |-> "Python CLI tool with Click"]
          [] id = "fastapi"    -> [name |-> "FastAPI",     description |-> "FastAPI web application"]
          [] id = "nextjs"     -> [name |-> "Next.js",     description |-> "Next.js application"]
          [] id = "node-api"   -> [name |-> "Node.js API", description |-> "Node.js Express API"]]

\* ------------------------------------------------------------------------
\* Filesystem (pathlib over directories and regular files)
\* ------------------------------------------------------------------------

Dir == [kind |-> "dir", content |-> <<>>]

File(content) == [kind |-> "file", content |-> content]

Parent(p) == SubSeq(p, 1, Len(p) - 1)

\* Proper, non-root prefixes of p.
Ancestors(p) == {SubSeq(p, 1, n) : n \in 1..(Len(p) - 1)}

IsPrefix(p, q) == Len(p) <= Len(q) /\ SubSeq(q, 1, Len(p)) = p

\* Path.is_dir() in place of Path.exists().
Exists_is_dir(fs, p) == p = <<>> \/ (p \in DOMAIN fs /\ fs[p].kind = "dir")

\* Path.exists(): a path below a regular file does not exist (ENOTDIR).
Exists(fs, p) == p = <<>> \/ p \in DOMAIN fs

IsDir(fs, p) == p = <<>> \/ (p \in DOMAIN fs /\ fs[p].kind = "dir")

\* os.mkdir(p): the error it raises, or "ok".
os_mkdir_error(fs, p) ==
    IF Exists(fs, p) THEN "FileExistsError"
    ELSE IF \E q \in Ancestors(p) : q \in DOMAIN fs /\ fs[q].kind = "file"
         THEN "NotADirectoryError"
    ELSE IF ~Exists(fs, Parent(p)) THEN "FileNotFoundError"
    ELSE "ok"

AddEntry(fs, p, e) == [q \in DOMAIN fs \cup {p} |-> IF q = p THEN e ELSE fs[q]]

\* Path.mkdir with parents ignored.
mkdir_no_parents(fs, p, parents, exist_ok) ==
    LET e == os_mkdir_error(fs, p) IN
    IF e = "ok" THEN [fs |-> AddEntry(fs, p, Dir), err |-> "ok"]
    ELSE IF e = "FileNotFoundError" THEN [fs |-> fs, err |-> e]
    ELSE IF exist_ok /\ IsDir(fs, p) THEN [fs |-> fs, err |-> "ok"]
    ELSE [fs |-> fs, err |-> e]

\* Path.mkdir(parents, exist_ok): the filesystem it leaves and the error it
\* raises ("ok" when none).
RECURSIVE mkdir(_, _, _, _)
mkdir(fs, p, parents, exist_ok) ==
    LET e == os_mkdir_error(fs, p) IN
    IF e = "ok" THEN [fs |-> AddEntry(fs, p, Dir), err |-> "ok"]
    ELSE IF e = "FileNotFoundError" THEN
        IF ~parents \/ p = <<>> THEN [fs |-> fs, err |-> e]
        ELSE LET up == mkdir(fs, Parent(p), TRUE, TRUE) IN
             IF up.err # "ok" THEN up
             ELSE mkdir(up.fs, p, FALSE, exist_ok)
    ELSE IF exist_ok /\ IsDir(fs, p) THEN [fs |-> fs, err |-> "ok"]
    ELSE [fs |-> fs, err |-> e]

\* write_text at Path(p.name): the file lands in the working directory.
write_text_in_cwd(fs, p, content) == AddEntry(fs, <<p[Len(p)]>>, File(content))

\* Path.write_text(content): creates or overwrites the regular file p. Every
\* call of the builders writes into a directory the same call has created.
write_text(fs, p, content) == AddEntry(fs, p, File(content))

\* ------------------------------------------------------------------------
\* Template text and rendering
\* ------------------------------------------------------------------------

\* The placeholder as it stands in the template strings.
PH == "{{ project_name }}"

NL == "\n"

\* What the f-string of src/__init__.py leaves of "{{ project_name }}":
\* doubled braces are the escape for single ones.
FSTRING_PH == "{ project_name }"

RECURSIVE Substitute(_, _)
Substitute(text, value) ==
    IF text = <<>> THEN <<>>
    ELSE <<IF Head(text) = PH THEN value ELSE Head(text)>>
         \o Substitute(Tail(text), value)

\* jinja2 Template(text).render(project_name=value): every placeholder is
\* replaced by the value, and a single trailing newline is dropped
\* (keep_trailing_newline is off by default).
Render(text, value) ==
    LET s == Substitute(text, value) IN
    IF s # <<>> /\ s[Len(s)] = NL THEN SubSeq(s, 1, Len(s) - 1) ELSE s

\* An f-string literal with no replacement field: "{{" and "}}" become
\* "{" and "}".
RECURSIVE FString(_)
FString(text) ==
    IF text = <<>> THEN <<>>
    ELSE <<IF Head(text) = PH THEN FSTRING_PH ELSE Head(text)>>
         \o FString(Tail(text))

\* "\n".join(reqs) + "\n"
RECURSIVE JoinLines(_)
JoinLines(reqs) ==
    IF reqs = <<>> THEN <<NL>>
    ELSE IF Len(reqs) = 1 THEN <<reqs[1], NL>>
    ELSE <<reqs[1], NL>> \o JoinLines(Tail(reqs))

\* One step of a builder. A write step carries the text as it stands in the
\* source and how the source turns it into the content written:
\*   "render"  Template(text).render(project_name=path.name)
\*   "fstring" an f-string literal
\*   "plain"   the text itself
\* A mkdir step is (path / rel).mkdir(exist_ok=True).
Write(rel, how, text) == [step |-> "write", rel |-> rel, how |-> how, text |-> text]

MkdirStep(rel) == [step |-> "mkdir", rel |-> rel, how |-> "plain", text |-> <<>>]

\* path.name
PathName(path) == path[Len(path)]

\* The content a write step writes for the project at path.
Content(s, path) ==
    CASE s.how = "render"  -> Render(s.text, PathName(path))
      [] s.how = "fstring" -> FString(s.text)
      [] OTHER             -> s.text

RECURSIVE RunSteps(_, _, _)
RunSteps(fs, path, steps) ==
    IF steps = <<>> THEN fs
    ELSE LET s == Head(steps)
             next == IF s.step = "write"
                     THEN write_text(fs, path \o s.rel, Content(s, path))
                     ELSE mkdir(fs, path \o s.rel, FALSE, TRUE).fs
         IN RunSteps(next, path, Tail(steps))

\* ------------------------------------------------------------------------
\* The five builders: the steps each performs, in source order
\* ------------------------------------------------------------------------

GITIGNORE_PYTHON == <<"# Python\n__pycache__/\n...", NL>>

INDEX_CSS == <<"* {\n  margin: 0;\n...", NL>>

\* react_steps with a Dockerfile written under docker.
react_steps_docker(docker, testing, linting) ==
    << Write(<<"package.json">>, "render",
             <<"{\n  \"name\": \"", PH, "\",\n  \"version\": \"0.1.0\",\n...vite...", NL>>),
       Write(<<"vite.config.js">>, "plain",
             <<"import { defineConfig } from 'vite'\n...", NL>>),
       Write(<<"index.html">>, "render",
             <<"<!DOCTYPE html>\n...<title>", PH, "</title>\n...</html>", NL>>),
       Write(<<"src", "main.jsx">>, "plain", <<"import React from 'react'\n...", NL>>),
       Write(<<"src", "App.jsx">>, "render",
             <<"import { useState } from 'react'\n...<h1>", PH,
               "</h1>\n...export default App", NL>>),
       Write(<<"src", "index.css">>, "plain", INDEX_CSS),
       Write(<<"src", "App.css">>, "plain", <<".App {\n  text-align: center;\n...", NL>>),
       Write(<<".gitignore">>, "plain",
             <<"# Dependencies\nnode_modules/\ndist/\n...", NL>>),
       Write(<<"README.md">>, "render",
             <<"# ", PH, "\n\nA React application built with Vite.\n...", NL>>) >>
    \o (IF docker
        THEN <<Write(<<"Dockerfile">>, "plain", <<"FROM node:20-slim\n...", NL>>)>>
        ELSE <<>>)

react_steps(docker, testing, linting) ==
    << Write(<<"package.json">>, "render",
             <<"{\n  \"name\": \"", PH, "\",\n  \"version\": \"0.1.0\",\n...vite...", NL>>),
       Write(<<"vite.config.js">>, "plain",
             <<"import { defineConfig } from 'vite'\n...", NL>>),
       Write(<<"index.html">>, "render",
             <<"<!DOCTYPE html>\n...<title>", PH, "</title>\n...</html>", NL>>),
       Write(<<"src", "main.jsx">>, "plain", <<"import React from 'react'\n...", NL>>),
       Write(<<"src", "App.jsx">>, "render",
             <<"import { useState } from 'react'\n...<h1>", PH,
               "</h1>\n...export default App", NL>>),
       Write(<<"src", "index.css">>, "plain", INDEX_CSS),
       Write(<<"src", "App.css">>, "plain", <<".App {\n  text-align: center;\n...", NL>>),
       Write(<<".gitignore">>, "plain",
             <<"# Dependencies\nnode_modules/\ndist/\n...", NL>>),
       Write(<<"README.md">>, "render",
             <<"# ", PH, "\n\nA React application built with Vite.\n...", NL>>) >>

create_react_project(fs, path, docker, testing, linting) ==
    RunSteps(fs, path, react_steps(docker, testing, linting))

python_cli_reqs(testing, linting) ==
    <<"click>=8.1.0">>
    \o (IF testing THEN <<"pytest>=7.0.0">> ELSE <<>>)
    \o (IF linting THEN <<"ruff>=0.1.0", "black>=23.0.0">> ELSE <<>>)

\* python_cli_steps with the test files written whatever testing is.
python_cli_steps_always_tests(docker, testing, linting) ==
    << Write(<<"requirements.txt">>, "plain", JoinLines(python_cli_reqs(testing, linting))),
       Write(<<"src", "main.py">>, "render",
             <<"#!/usr/bin/env python3\n\"\"\"", PH,
               " - CLI tool.\"\"\"\n\nimport click\n...", NL>>),
       Write(<<"src", "__init__.py">>, "fstring",
             <<"\"\"\"", PH, " package.\"\"\"", NL>>),
       Write(<<"tests", "test_main.py">>, "plain",
             <<"import pytest\nfrom src.main import main\n...", NL>>),
       Write(<<"tests", "__init__.py">>, "plain", <<>>),
       Write(<<".gitignore">>, "plain", GITIGNORE_PYTHON),
       Write(<<"README.md">>, "render",
             <<"# ", PH, "\n\nA Python CLI tool built with Click.\n...", NL>>) >>

python_cli_steps(docker, testing, linting) ==
    << Write(<<"requirements.txt">>, "plain", JoinLines(python_cli_reqs(testing, linting))),
       Write(<<"src", "main.py">>, "render",
             <<"#!/usr/bin/env python3\n\"\"\"", PH,
               " - CLI tool.\"\"\"\n\nimport click\n...", NL>>),
       Write(<<"src", "__init__.py">>, "fstring",
             <<"\"\"\"", PH, " package.\"\"\"", NL>>) >>
    \o (IF testing
        THEN << Write(<<"tests", "test_main.py">>, "plain",
                      <<"import pytest\nfrom src.main import main\n...", NL>>),
                Write(<<"tests", "__init__.py">>, "plain", <<>>) >>
        ELSE <<>>)
    \o << Write(<<".gitignore">>, "plain", GITIGNORE_PYTHON),
          Write(<<"README.md">>, "render",
                <<"# ", PH, "\n\nA Python CLI tool built with Click.\n...", NL>>) >>

create_python_cli_project(fs, path, docker, testing, linting) ==
    RunSteps(fs, path, python_cli_steps(docker, testing, linting))

fastapi_reqs(testing, linting) ==
    <<"fastapi>=0.100.0", "uvicorn[standard]>=0.23.0">>
    \o (IF testing THEN <<"pytest>=7.0.0", "httpx>=0.24.0">> ELSE <<>>)
    \o (IF linting THEN <<"ruff>=0.1.0", "black>=23.0.0">> ELSE <<>>)

\* fastapi_steps with docker-compose.yml written whatever docker is.
fastapi_steps_compose_always(docker, testing, linting) ==
    << Write(<<"requirements.txt">>, "plain", JoinLines(fastapi_reqs(testing, linting))),
       Write(<<"src", "main.py">>, "render",
             <<"from fastapi import FastAPI\n\napp = FastAPI(title=\"", PH, "\")\n...", NL>>),
       Write(<<"src", "__init__.py">>, "plain", <<>>),
       Write(<<".gitignore">>, "plain", GITIGNORE_PYTHON),
       Write(<<"README.md">>, "render",
             <<"# ", PH, "\n\nA FastAPI web application.\n...", NL>>) >>
    \o (IF docker
        THEN << Write(<<"Dockerfile">>, "plain", <<"FROM python:3.11-slim\n...", NL>>),
                Write(<<".dockerignore">>, "plain", <<"__pycache__\n*.pyc\n...", NL>>) >>
        ELSE <<>>)
    \o << Write(<<"docker-compose.yml">>, "plain", <<"version: '3.8'\n...", NL>>) >>

fastapi_steps(docker, testing, linting) ==
    << Write(<<"requirements.txt">>, "plain", JoinLines(fastapi_reqs(testing, linting))),
       Write(<<"src", "main.py">>, "render",
             <<"from fastapi import FastAPI\n\napp = FastAPI(title=\"", PH, "\")\n...", NL>>),
       Write(<<"src", "__init__.py">>, "plain", <<>>) >>
    \o (IF testing
        THEN << Write(<<"tests", "test_main.py">>, "plain",
                      <<"from fastapi.testclient import TestClient\n...", NL>>),
                Write(<<"tests", "__init__.py">>, "plain", <<>>) >>
        ELSE <<>>)
    \o << Write(<<".gitignore">>, "plain", GITIGNORE_PYTHON),
          Write(<<"README.md">>, "render",
                <<"# ", PH, "\n\nA FastAPI web application.\n...", NL>>) >>
    \o (IF docker
        THEN << Write(<<"Dockerfile">>, "plain", <<"FROM python:3.11-slim\n...", NL>>),
                Write(<<".dockerignore">>, "plain", <<"__pycache__\n*.pyc\n...", NL>>) >>
        ELSE <<>>)
    \o (IF docker
        THEN << Write(<<"docker-compose.yml">>, "plain", <<"version: '3.8'\n...", NL>>) >>
        ELSE <<>>)

create_fastapi_project(fs, path, docker, testing, linting) ==
    RunSteps(fs, path, fastapi_steps(docker, testing, linting))

nextjs_steps(docker, testing, linting) ==
    << Write(<<"package.json">>, "render",
             <<"{\n  \"name\": \"", PH, "\",\n  \"version\": \"0.1.0\",\n...next...", NL>>),
       Write(<<"next.config.js">>, "plain",
             <<"/** @type {import('next').NextConfig} */\n...", NL>>),
       Write(<<"tsconfig.json">>, "plain", <<"{\n  \"compilerOptions\": {\n...", NL>>),
       MkdirStep(<<"app">>),
       Write(<<"app", "layout.tsx">>, "render",
             <<"export const metadata = {\n  title: '", PH,
               "',\n  description: 'Generated by quick-scaffold',\n...", NL>>),
       Write(<<"app", "page.tsx">>, "render",
             <<"export default function Home() {\n...<h1>", PH, "</h1>\n...", NL>>),
       Write(<<"app", "globals.css">>, "plain", INDEX_CSS),
       Write(<<".gitignore">>, "plain",
             <<"# Dependencies\nnode_modules/\n.next/\nout/\n...", NL>>),
       Write(<<"README.md">>, "render",
             <<"# ", PH, "\n\nA Next.js application.\n...", NL>>) >>

create_nextjs_project(fs, path, docker, testing, linting) ==
    RunSteps(fs, path, nextjs_steps(docker, testing, linting))

node_api_steps(docker, testing, linting) ==
    << Write(<<"package.json">>, "render",
             <<"{\n  \"name\": \"", PH, "\",\n  \"version\": \"0.1.0\",\n...express...", NL>>),
       Write(<<"src", "index.js">>, "plain", <<"import express from 'express';\n...", NL>>),
       Write(<<".gitignore">>, "plain",
             <<"# Dependencies\nnode_modules/\n\n# Environment\n...", NL>>),
       Write(<<"README.md">>, "render",
             <<"# ", PH, "\n\nA Node.js Express API.\n...", NL>>) >>

create_node_api_project(fs, path, docker, testing, linting) ==
    RunSteps(fs, path, node_api_steps(docker, testing, linting))

\* ------------------------------------------------------------------------
\* The generator
\* ------------------------------------------------------------------------

\* The chain with a final else that falls back to the python-cli builder.
dispatch_with_fallback(fs, path, template, docker, testing, linting) ==
    CASE template = "react"      -> create_react_project(fs, path, docker, testing, linting)
      [] template = "fastapi"    -> create_fastapi_project(fs, path, docker, testing, linting)
      [] template = "nextjs"     -> create_nextjs_project(fs, path, docker, testing, linting)
      [] template = "node-api"   -> create_node_api_project(fs, path, docker, testing, linting)
      [] OTHER                   -> create_python_cli_project(fs, path, docker, testing, linting)

\* The if/elif chain of create_project_structure: no branch for other ids.
dispatch(fs, path, template, docker, testing, linting) ==
    CASE template = "react"      -> create_react_project(fs, path, docker, testing, linting)
      [] template = "python-cli" -> create_python_cli_project(fs, path, docker, testing, linting)
      [] template = "fastapi"    -> create_fastapi_project(fs, path, docker, testing, linting)
      [] template = "nextjs"     -> create_nextjs_project(fs, path, docker, testing, linting)
      [] template = "node-api"   -> create_node_api_project(fs, path, docker, testing, linting)
      [] OTHER                   -> fs

\* What the call prints on success.
success_echo(template) ==
    <<"Project created successfully!", "Location", "Next steps", "cd">>
    \o (IF template \in {"react", "nextjs", "node-api"}
        THEN <<"npm install", "npm run dev">>
        ELSE <<"pip install -r requirements.txt", "python -m src.main">>)

\* create_project_structure(project_name, template, docker, testing, linting)
\* on the filesystem fs. result is "ok", "TargetExists" (the error message and
\* sys.exit(1)) or the name of the exception that escapes the call; exit is
\* the status the process ends with.
create_project_structure(fs, project_name, template, docker, testing, linting) ==
    LET project_path == project_name IN
    IF Exists(fs, project_path)
    THEN [fs |-> fs, result |-> "TargetExists", exit |-> 1,
          echo |-> <<"Error: Directory already exists!">>]
    ELSE LET made == mkdir(fs, project_path, TRUE, FALSE) IN
         IF made.err # "ok"
         THEN [fs |-> made.fs, result |-> made.err, exit |-> 1, echo |-> <<>>]
         ELSE LET src   == mkdir(made.fs, project_path \o <<"src">>, FALSE, TRUE).fs
                  tests == mkdir(src, project_path \o <<"tests">>, FALSE, TRUE).fs
              IN [fs |-> dispatch(tests, project_path, template, docker, testing, linting),
                  result |-> "ok", exit |-> 0, echo |-> success_echo(template)]

\* ------------------------------------------------------------------------
\* The CLI command
\* ------------------------------------------------------------------------

\* An option that was not given (None) and an empty project_name are both
\* false in `if not ...`.
NoTemplate == ""

NoName == <<>>

\* click.Choice([...]) of the --template option.
TemplateChoices == {"react", "python-cli", "fastapi", "nextjs", "node-api"}

\* The default misspelt.
DefaultTemplate_typo == "python"

\* default="python-cli" of the prompt and of the fallback after it.
DefaultTemplate == "python-cli"

\* The arguments main passes to create_project_structure, from the parsed
\* command line c (project_name, template, docker, testing, linting) and the
\* answers a to the prompts (used only in interactive mode). a.line is the
\* accepted answer to the Template prompt, "" for the default.
main_request(c, a) ==
    LET interactive == (c.project_name = NoName)
        name1 == IF interactive THEN a.answer_name ELSE c.project_name
        tpl1  == IF interactive /\ c.template = NoTemplate
                 THEN (IF a.line = "" THEN DefaultTemplate ELSE a.line)
                 ELSE c.template
        tpl2  == IF tpl1 = NoTemplate THEN DefaultTemplate ELSE tpl1
    IN [via          |-> IF c.template # NoTemplate THEN "option"
                         ELSE IF interactive /\ a.line # "" THEN "prompt"
                         ELSE "default",
        project_name |-> name1,
        template     |-> tpl2,
        docker       |-> IF interactive /\ ~c.docker THEN a.yes_docker ELSE c.docker,
        testing      |-> IF interactive /\ ~c.testing THEN a.yes_testing ELSE c.testing,
        linting      |-> IF interactive /\ ~c.linting THEN a.yes_linting ELSE c.linting]

\* ------------------------------------------------------------------------
\* State
\* ------------------------------------------------------------------------

VARIABLES
    fs,         \* the filesystem below the working directory: path -> entry
    op,         \* the operation that ran last
    req,        \* the arguments of the last generator call, and via: where
                \* its template id came from
    result,     \* how the last operation ended
    exit,       \* the exit status of the last operation
    echo,       \* what the last operation printed
    templates,  \* the catalog the last get_templates call returned
    ncalls      \* generator and main calls so far

vars == <<fs, op, req, result, exit, echo, templates, ncalls>>

EmptyFS == [p \in {} |-> Dir]

\* Filesystems a run starts from: nothing there, a regular file named a, an
\* empty directory named a.
InitialFilesystems ==
    { EmptyFS,
      [p \in {<<"a">>} |-> File(<<"notes", NL>>)],
      [p \in {<<"a">>} |-> Dir] }

NoReq == [via |-> "none", project_name |-> NoName, template |-> NoTemplate,
          docker |-> FALSE, testing |-> FALSE, linting |-> FALSE]

NoCatalog == [id \in {} |-> [name |-> "", description |-> ""]]

Init ==
    /\ fs \in InitialFilesystems
    /\ op = "none"
    /\ req = NoReq
    /\ result = "none"
    /\ exit = 0
    /\ echo = <<>>
    /\ templates = NoCatalog
    /\ ncalls = 0

\* get_templates()
GetTemplates ==
    /\ templates' = get_templates
    /\ op' = "get_templates"
    /\ req' = NoReq
    /\ result' = "ok"
    /\ exit' = 0
    /\ echo' = <<>>
    /\ UNCHANGED <<fs, ncalls>>

\* The generator run on the current filesystem.
Call(caller, r) ==
    \E out \in {create_project_structure(fs, r.project_name, r.template,
                                          r.docker, r.testing, r.linting)} :
       /\ fs' = out.fs
       /\ op' = caller
       /\ req' = r
       /\ result' = out.result
       /\ exit' = out.exit
       /\ echo' = out.echo
       /\ ncalls' = ncalls + 1

\* create_project_structure called directly, as the tests do.
CreateProjectStructure ==
    /\ ncalls < MaxCalls
    /\ \E project_name \in ProjectNames,
          template \in TemplateChoices \cup {UnknownTemplate},
          docker \in BOOLEAN, testing \in BOOLEAN, linting \in BOOLEAN :
          /\ Call("create_project_structure",
                  [via |-> "argument",
                   project_name |-> project_name, template |-> template,
                   docker |-> docker, testing |-> testing, linting |-> linting])
          /\ UNCHANGED templates

\* Command lines click accepts: project_name given or not, --template one of
\* the choices or not given, the three flags.
CommandLines ==
    [project_name : ProjectNames \cup {NoName},
     template     : TemplateChoices \cup {NoTemplate},
     docker : BOOLEAN, testing : BOOLEAN, linting : BOOLEAN]

\* Answers to the prompts of interactive mode: a name, the line the Template
\* prompt accepts (a choice, or "" for its default), three confirmations.
PromptAnswers ==
    [answer_name : ProjectNames,
     line        : DOMAIN get_templates \cup {""},
     yes_docker : BOOLEAN, yes_testing : BOOLEAN, yes_linting : BOOLEAN]

\* The generator calls main can make.
MainRequests ==
    {main_request(c, a) : c \in CommandLines, a \in PromptAnswers}

\* A run of main that ends before the generator is called.
MainStops(how, status, message) ==
    /\ op' = "main"
    /\ req' = NoReq
    /\ result' = how
    /\ exit' = status
    /\ echo' = <<message>>
    /\ ncalls' = ncalls + 1
    /\ UNCHANGED fs

\* One run of the command. click rejects a --template value outside the
\* choices before main's body runs (usage error, status 2). A prompt that
\* never gets an acceptable line ends the run with Abort (status 1), after
\* main has called get_templates.
Main ==
    /\ ncalls < MaxCalls
    /\ \/ /\ \E template \in {UnknownTemplate} : template \notin TemplateChoices
          /\ MainStops("UsageError", 2, "Error: Invalid value for '--template'")
          /\ UNCHANGED templates
       \/ /\ \E line \in {UnknownTemplate} : line \notin DOMAIN get_templates
          /\ MainStops("Abort", 1, "Aborted!")
          /\ templates' = get_templates
       \/ /\ \E r \in MainRequests : Call("main", r)
          /\ templates' = get_templates

Next == GetTemplates \/ CreateProjectStructure \/ Main

Spec == Init /\ [][Next]_vars

\* ------------------------------------------------------------------------
\* Properties
\* ------------------------------------------------------------------------

\* The five ids of the catalog, as the specification lists them.
CatalogIds == {"react", "python-cli", "fastapi", "nextjs", "node-api"}

\* The last operation called the generator (directly or from main).
Called ==
    /\ op \in {"create_project_structure", "main"}
    /\ result \notin {"UsageError", "Abort"}

\* The last operation was a generator call that succeeded.
Succeeded == Called /\ result = "ok"

HasFile(p) == p \in DOMAIN fs /\ fs[p].kind = "file"

HasDir(p) == p \in DOMAIN fs /\ fs[p].kind = "dir"

Chunks(text) == {text[i] : i \in 1..Len(text)}

\* The steps the builder of a catalog template performs (none for other ids).
StepsOf(template, docker, testing, linting) ==
    CASE template = "react"      -> react_steps(docker, testing, linting)
      [] template = "python-cli" -> python_cli_steps(docker, testing, linting)
      [] template = "fastapi"    -> fastapi_steps(docker, testing, linting)
      [] template = "nextjs"     -> nextjs_steps(docker, testing, linting)
      [] template = "node-api"   -> node_api_steps(docker, testing, linting)
      [] OTHER                   -> <<>>

\* The paths, relative to the project directory, a successful call leaves in
\* it according to the builder's steps.
PathsOf(template, docker, testing, linting) ==
    LET steps == StepsOf(template, docker, testing, linting) IN
    {<<>>, <<"src">>, <<"tests">>} \cup {steps[i].rel : i \in 1..Len(steps)}

\* The paths at and below the target of the last call, relative to it.
BelowTarget ==
    {SubSeq(p, Len(req.project_name) + 1, Len(p)) :
        p \in {q \in DOMAIN fs : IsPrefix(req.project_name, q)}}

\* No existing ancestor of p is a regular file.
NoFileAbove(f, p) == \A q \in Ancestors(p) : q \in DOMAIN f => f[q].kind = "dir"

\* C1: a generator call whose project_name is an existing path (a file, a
\* directory, an earlier project) fails with TargetExists, the error message
\* and status 1, whatever the template id and the flags, and leaves the
\* filesystem as it was.
C1_TargetExistsWritesNothing ==
    [][(Called' /\ req'.project_name \in DOMAIN fs)
        => /\ result' = "TargetExists"
           /\ exit' = 1
           /\ echo' = <<"Error: Directory already exists!">>
           /\ fs' = fs]_vars

\* C1 witness: the second call names the project an earlier call created.
C1_Witness ==
    /\ Called /\ result = "TargetExists"
    /\ HasDir(req.project_name \o <<"src">>)
    /\ HasFile(req.project_name \o <<"README.md">>)

\* C2: after a successful call for a catalog template, every file whose
\* source text holds the {{ project_name }} placeholder holds the project name
\* in its place, and no generated file holds placeholder syntax.
C2_PlaceholdersSubstituted ==
    (Succeeded /\ req.template \in CatalogIds) =>
        LET steps == StepsOf(req.template, req.docker, req.testing, req.linting) IN
        \A i \in 1..Len(steps) :
            steps[i].step = "write" =>
                LET written == Chunks(fs[req.project_name \o steps[i].rel].content) IN
                /\ PH \in Chunks(steps[i].text) => PathName(req.project_name) \in written
                /\ PH \notin written
                /\ FSTRING_PH \notin written

\* C3: after a successful python-cli call, whatever docker and linting are,
\* src/main.py, requirements.txt, README.md and .gitignore exist, and
\* tests/test_main.py exists exactly when testing is true.
C3_PythonCliFiles ==
    (Succeeded /\ req.template = "python-cli") =>
        /\ HasFile(req.project_name \o <<"src", "main.py">>)
        /\ HasFile(req.project_name \o <<"requirements.txt">>)
        /\ HasFile(req.project_name \o <<"README.md">>)
        /\ HasFile(req.project_name \o <<".gitignore">>)
        /\ HasFile(req.project_name \o <<"tests", "test_main.py">>) <=> req.testing

\* C3 witness: python-cli without testing but with docker and linting.
C3_Witness ==
    /\ Succeeded /\ req.template = "python-cli"
    /\ ~req.testing /\ req.docker /\ req.linting
    /\ HasFile(req.project_name \o <<"src", "main.py">>)

\* C4: after a successful fastapi call, whatever testing and linting are,
\* Dockerfile and docker-compose.yml both exist when docker is true and
\* neither exists when it is false.
C4_FastapiDockerFiles ==
    (Succeeded /\ req.template = "fastapi") =>
        /\ HasFile(req.project_name \o <<"Dockerfile">>) <=> req.docker
        /\ HasFile(req.project_name \o <<"docker-compose.yml">>) <=> req.docker
        /\ (req.project_name \o <<"Dockerfile">>) \in DOMAIN fs <=> req.docker
        /\ (req.project_name \o <<"docker-compose.yml">>) \in DOMAIN fs <=> req.docker

\* C4 witness: fastapi without docker, with testing and linting.
C4_Witness ==
    /\ Succeeded /\ req.template = "fastapi"
    /\ ~req.docker /\ req.testing /\ req.linting
    /\ HasFile(req.project_name \o <<"requirements.txt">>)

\* What C5 promises of a call: success, and the directory project_name with
\* its subdirectories src and tests.
C5_Outcome ==
    /\ result' = "ok"
    /\ exit' = 0
    /\ req'.project_name \in DOMAIN fs' /\ fs'[req'.project_name].kind = "dir"
    /\ \A sub \in {<<"src">>, <<"tests">>} :
          /\ (req'.project_name \o sub) \in DOMAIN fs'
          /\ fs'[req'.project_name \o sub].kind = "dir"

\* C5 as stated: for every catalog template and flag combination, a call on
\* a target that does not exist succeeds and leaves the directory
\* project_name with src/ and tests/ in it.
C5_AsStated ==
    [][(Called' /\ req'.template \in CatalogIds /\ req'.project_name \notin DOMAIN fs)
        => C5_Outcome]_vars

\* C5 amended: the same, for a target none of whose ancestors is a regular
\* file.
C5_SucceedsUnderDirectories ==
    [][(/\ Called' /\ req'.template \in CatalogIds
        /\ req'.project_name \notin DOMAIN fs
        /\ NoFileAbove(fs, req'.project_name))
        => C5_Outcome]_vars

\* C5 witness: a nested project created where its parent did not exist.
C5_Witness ==
    /\ Succeeded /\ req.template = "nextjs"
    /\ req.project_name = <<"a", "b">>
    /\ HasDir(<<"a", "b", "tests">>)
    /\ ~HasDir(<<"a", "src">>)

\* C6: whenever get_templates has returned, what it returned has exactly the
\* five ids, whatever generator calls, successful or failed, came before.
C6_CatalogIds == templates # NoCatalog => DOMAIN templates = CatalogIds

\* C6 witness: get_templates returns after two generator calls, one of which
\* created a project.
C6_Witness ==
    /\ op = "get_templates"
    /\ DOMAIN templates = CatalogIds
    /\ ncalls >= 2
    /\ \E p \in ProjectNames : HasFile(p \o <<"README.md">>)

\* C7: a run of main that reaches the generator passes it one of the five
\* catalog ids, and python-cli when no template was given or chosen.
C7_MainPassesCatalogId ==
    (op = "main" /\ Called) =>
        /\ req.template \in CatalogIds
        /\ req.via = "default" => req.template = "python-cli"
        /\ req.via \in {"default", "prompt", "option"}

\* C7 witness: an interactive run that took the prompt's default.
C7_Witness ==
    /\ op = "main" /\ Succeeded
    /\ req.via = "default" /\ req.template = "python-cli"
    /\ req.testing
    /\ HasFile(req.project_name \o <<"tests", "test_main.py">>)

\* Every path that existed before the call is unchanged by it.
ExistingUnchanged == \A p \in DOMAIN fs : p \in DOMAIN fs' /\ fs'[p] = fs[p]

\* C8 as stated: a generator call leaves every existing path unchanged, and
\* every path that is neither the target nor below it (the target's ancestors
\* among them) as it was.
C8_AsStated ==
    [][Called' =>
        /\ ExistingUnchanged
        /\ \A p \in DOMAIN fs' :
              ~IsPrefix(req'.project_name, p) => (p \in DOMAIN fs /\ fs[p] = fs'[p])]_vars

\* C8 amended: a generator call leaves every existing path unchanged, and
\* what it creates is the target, paths below it, and the target's missing
\* ancestors, which it creates as directories.
C8_OnlyTargetAndMissingAncestors ==
    [][Called' =>
        /\ ExistingUnchanged
        /\ \A p \in DOMAIN fs' \ DOMAIN fs :
              \/ IsPrefix(req'.project_name, p)
              \/ (p \in Ancestors(req'.project_name) /\ fs'[p] = Dir)]_vars

\* C8 witness: project b created beside the earlier project a.
C8_Witness ==
    /\ Succeeded /\ req.project_name = <<"b">>
    /\ HasFile(<<"b", "README.md">>)
    /\ HasFile(<<"a", "README.md">>)

\* What C9 says an unknown template id leaves: a successful call and a
\* target holding the empty directories src and tests and nothing else.
C9_Outcome ==
    /\ result' = "ok"
    /\ exit' = 0
    /\ Len(echo') > 0 /\ echo'[1] = "Project created successfully!"
    /\ \A p \in DOMAIN fs' :
          IsPrefix(req'.project_name, p) =>
              /\ p \in {req'.project_name, req'.project_name \o <<"src">>,
                        req'.project_name \o <<"tests">>}
              /\ fs'[p] = Dir
    /\ \A p \in {req'.project_name, req'.project_name \o <<"src">>,
                 req'.project_name \o <<"tests">>} : p \in DOMAIN fs'

\* C9 as stated: a call with a template id outside the catalog on a target
\* that does not exist does not fail.
C9_AsStated ==
    [][(Called' /\ req'.template \notin CatalogIds /\ req'.project_name \notin DOMAIN fs)
        => C9_Outcome]_vars

\* C9 amended: the same, for a target none of whose ancestors is a regular
\* file.
C9_UnknownIdLeavesSkeleton ==
    [][(/\ Called' /\ req'.template \notin CatalogIds
        /\ req'.project_name \notin DOMAIN fs
        /\ NoFileAbove(fs, req'.project_name))
        => C9_Outcome]_vars

\* C9 witness: an unknown id left the bare skeleton and reported success.
C9_Witness ==
    /\ Succeeded /\ req.template = UnknownTemplate
    /\ BelowTarget = {<<>>, <<"src">>, <<"tests">>}
    /\ echo[1] = "Project created successfully!"

====
